---- MODULE Spec2Model ----
(***************************************************************************)
(* Delivery subsystem of the Glue ETL job                                  *)
(* unix_lf_converter/jobs/etl_async_failed_success_rows.py:                *)
(* batch formation, retry-with-backoff posting (send_batch_async), per-row *)
(* success/failure accounting and the failure-streak circuit breaker       *)
(* (post_batches_with_success_tracking).                                   *)
(*                                                                         *)
(* A row of the DataFrame is identified by its position 1..Len(rows);      *)
(* rows[r] tells whether transform_row(row r) returns (TRUE) or raises     *)
(* (FALSE).  The lists of the program hold row positions, and the column   *)
(* FailureReason of the row objects is the function FailureReason, so that *)
(* a row object that is in a list twice has one reason, as in the program. *)
(*                                                                         *)
(* SpecMain is a run of main: fetch_all_csvs over the listed objects, the  *)
(* dispatch of the rows, archive_files and upload_failed_rows_to_s3.  Keys *)
(* are the strings of the program, and the calls to S3 that can fail pick  *)
(* their outcome freely.  SpecMainLive adds the fairness of a running      *)
(* program, SpecMainExc the exceptions that escape a stage and reach the   *)
(* except clause of main.  SpecArchiver is the Archiver of                 *)
(* pipeline/archiver.py on directories given as sets of file names.        *)
(*                                                                         *)
(* SpecFlow is a run of deepparse_flow (pipeline/flow.py) over the raw     *)
(* files of the input directory, SpecHandler one invocation of             *)
(* lambda_handler (jobs/handler.py) on an event, and SpecConverter one     *)
(* call of UnixLFConverter.convert_csv_to_text (script/converter.py) with  *)
(* its main thread, worker threads and writer thread; SpecConverterLive    *)
(* adds the fairness of the scheduler.                                     *)
(***************************************************************************)
EXTENDS Integers, Sequences, FiniteSets, TLC

\* ---------------------------------------------------------------- bounds
MaxRows == 6
MaxRetriesArg == 3
MaxJobRows == 4
MaxClock == 0
MaxArchiveCalls == 3
MaxFiles == 2
MaxChunks == 2
MaxRecords == 3
MaxChunkIds == 3

\* ------------------------------------------------------ program constants
BATCH_SIZE == 2
MAX_RETRY == 2
DefaultMaxRetries == 2
InitialDelay == 2
\* outcome of a post attempt that raised instead of returning a response
TransportError == 0
\* FOLDER_PREFIX and GLUE_JOB_NAME of the job
FOLDER_PREFIX == "in"
GLUE_JOB_NAME == "etl"

VARIABLES
    rows,             \* df: rows[r] = TRUE iff transform_row(row r) returns
    i,                \* number of rows the for loop has taken
    pc,               \* control point: "fetch", "loop", "send", "ret",
                      \* "drain", "done", "report", "completed"
    batch_rows, batch_payload, failed_rows, successful_rows, failure_streak,
    FailureReason,    \* column FailureReason of each row object
    caller,           \* who awaits send_batch_async: "loop", "drain", "direct"
    batch,            \* parameter batch of the running send_batch_async
    max_retries,      \* parameter max_retries of the running send_batch_async
    attempt, delay,   \* locals of send_batch_async
    ret,              \* value returned by send_batch_async
    events,           \* history: posts and sleeps of the current call
    submitted,        \* history: every call of send_batch_async, at its start
    calls,            \* history: every returned call and its classification
    tripped,          \* history: the loop was left by the break of line 262
    listing,          \* the objects list_objects_v2 returns, in key order
    fi,               \* number of listed objects fetch_all_csvs has handled
    processed_keys,   \* fetch_all_csvs
    source_file_key,  \* column source_file_key of df
    csv_keys,         \* main: the keys fetch_all_csvs returned
    ai,               \* number of keys archive_files has handled
    archived, archive_failed,   \* lists archived and failed of archive_files
    archive_log,      \* history: the copy and delete calls of archive_files
    gi,               \* number of groups upload_failed_rows_to_s3 has handled
    puts,             \* history: the objects put_object has written
    upload_log,       \* history: the outcome of every put_object call
    clock,            \* datetime.utcnow(), in seconds
    job_id,           \* main
    job_log,          \* the jobDetails and JobStart records main has logged
    input_dir,        \* pipeline Archiver: the files in self.input_dir
    processed_dir,    \* the files in the directory of the processed chunks
    archive_input_dir, archive_processed_dir,   \* the files in the archives
    arch_calls,       \* history: the calls of archive_raw, archive_processed
    store,            \* the keys of the objects in SOURCE_BUCKET
    components,       \* deepparse_flow: the collaborator classes in use
    files,            \* deepparse_flow: the list extractor.list_files() gave
    file_idx,         \* position of raw_filename in files
    chunks,           \* number of chunk paths extract(raw_filename) returned
    chunk_idx,        \* position of chunk_path in chunks
    flow_log,         \* history: the calls deepparse_flow has completed
    records,          \* lambda_handler: event.get("Records", [])
    rec_idx,          \* number of records the for loop has taken
    triggered_jobs, seen_folders,   \* locals of lambda_handler
    response,         \* the value lambda_handler returned
    job_runs,         \* history: the job runs start_job_run has started
    rec_log,          \* history: what became of every record taken
    num_chunks,       \* convert_csv_to_text: the chunks of the input file
    futures,          \* the state of the future of every submitted chunk
    taken,            \* the futures as_completed has yielded
    queue_items,      \* processed_chunks_queue: the chunk ids in the queue
    unfinished_tasks, \* processed_chunks_queue: the count join() waits for
    expected_chunk_id, conversion_successful, stop_writer_event,
    writer_pc,        \* control point of writer_thread_func
    written,          \* history: the chunk ids written to the output file
    faults            \* history: the errors of the environment so far

pipeVars == <<input_dir, processed_dir, archive_input_dir,
              archive_processed_dir, arch_calls>>

flowVars == <<components, files, file_idx, chunks, chunk_idx, flow_log>>

handlerVars == <<records, rec_idx, triggered_jobs, seen_folders, response,
                 job_runs, rec_log>>

convVars == <<num_chunks, futures, taken, queue_items, unfinished_tasks,
              expected_chunk_id, conversion_successful, stop_writer_event,
              writer_pc, written, faults>>

extVars == <<flowVars, handlerVars, convVars>>

jobVars == <<pipeVars, extVars, store, listing, fi, processed_keys, source_file_key, csv_keys, ai,
             archived, archive_failed, archive_log, gi, puts, upload_log,
             clock, job_id, job_log>>

vars == <<rows, i, pc, batch_rows, batch_payload, failed_rows, successful_rows,
          failure_streak, FailureReason, caller, batch, max_retries, attempt,
          delay, ret, events, submitted, calls, tripped, jobVars>>

dispatchVars == <<i, batch_rows, batch_payload, failed_rows, successful_rows,
                  failure_streak, caller, batch, max_retries, attempt, delay,
                  ret, events, submitted, calls, tripped>>

loopVars == <<rows, i, batch_rows, batch_payload, failed_rows, successful_rows,
              failure_streak, FailureReason, tripped>>

\* ------------------------------------------------------------- responses
Responses == {200, 204, 500, TransportError}

NoReason == ""

Is2xx_Only200(status) == status = 200

Is2xx(status) == 200 <= status /\ status < 300

\* resp.reason of a response, first line, stripped
ReasonPhrase(status) ==
    IF status = 500 THEN "Internal Server Error" ELSE "OK"

\* the exception the except clause of send_batch_async catches.  A non-2xx
\* response raises Exception(reason) (lines 159-160): the text of line 159 is
\* the message of the exception, which has no attribute status or reason.
\* A timeout or a connection error has neither attribute either.
RaisedError(resp) ==
    IF resp = TransportError
    THEN [hasStatus |-> FALSE, status |-> 0, reason |-> "",
          msg |-> "Cannot connect to host"]
    ELSE [hasStatus |-> FALSE, status |-> 0, reason |-> "",
          msg |-> "HTTP " \o ToString(resp) \o " - " \o ReasonPhrase(resp)]

\* the exception transform_row raises (int() of a bad Active_Flag)
TransformError ==
    [hasStatus |-> FALSE, status |-> 0, reason |-> "",
     msg |-> "cannot convert float NaN to integer"]

\* f"HTTP {getattr(err_, 'status', 'Unknown')} - {short_resp}"
FormatReason(err) ==
    "HTTP " \o (IF err.hasStatus THEN ToString(err.status) ELSE "Unknown")
            \o " - "
            \o (IF err.reason # "" THEN err.reason ELSE "Couldn't get response")

\* ------------------------------------------------------ send_batch_async
WhileCond(a, m) == a <= m

RetriesExhausted_OffByOne(a, m) == a >= m

RetriesExhausted(a, m) == a > m

NextDelay_Linear(d) == d + 2

NextDelay(d) == d * 2

\* line 126: the RequestId transform_row draws for a row; the loop
\* transforms every row once
RequestIdOf(r) == "CRD-" \o ToString(r)

\* line 140: payload is built once, before the while loop, from the list the
\* caller passed; every attempt posts this object (line 147)
PayloadOf_Regenerated(b, a) ==
    [k \in 1..Len(b) |->
        [row |-> b[k], RequestId |-> RequestIdOf(b[k]) \o "-" \o ToString(a)]]

PayloadOf(b, a) ==
    [k \in 1..Len(b) |-> [row |-> b[k], RequestId |-> RequestIdOf(b[k])]]

PostEvent(resp) ==
    [kind |-> "post", v |-> resp, payload |-> PayloadOf(batch, attempt)]

SleepEvent(d) == [kind |-> "sleep", v |-> d]

\* a call that is not awaited: the caller goes on while the batch is in flight
StartSend_NotAwaited(b, m, who) ==
    /\ pc' = pc
    /\ caller' = who
    /\ batch' = b
    /\ max_retries' = m
    /\ attempt' = 0
    /\ delay' = InitialDelay
    /\ events' = <<>>
    /\ ret' = [success |-> FALSE, reason |-> NoReason]
    /\ submitted' = Append(submitted, [batch |-> b, afterTrip |-> tripped'])

StartSend(b, m, who) ==
    /\ pc' = "send"
    /\ caller' = who
    /\ batch' = b
    /\ max_retries' = m
    /\ attempt' = 0
    /\ delay' = InitialDelay
    /\ events' = <<>>
    /\ ret' = [success |-> FALSE, reason |-> NoReason]
    /\ submitted' = Append(submitted, [batch |-> b, afterTrip |-> tripped'])

\* lines 145-157: an attempt answered by a 2xx status
AttemptOk ==
    /\ pc = "send"
    /\ WhileCond(attempt, max_retries)
    /\ \E resp \in Responses :
        /\ Is2xx(resp)
        /\ events' = Append(events, PostEvent(resp))
    /\ ret' = [success |-> TRUE, reason |-> NoReason]
    /\ pc' = "ret"
    /\ UNCHANGED <<loopVars, caller, batch, max_retries, attempt, delay,
                   submitted, calls>>
    /\ UNCHANGED jobVars

\* lines 158-177: a failed attempt that is retried after the backoff sleep
AttemptFailRetry ==
    /\ pc = "send"
    /\ WhileCond(attempt, max_retries)
    /\ ~RetriesExhausted(attempt + 1, max_retries)
    /\ \E resp \in Responses :
        /\ ~Is2xx(resp)
        /\ events' = events \o <<PostEvent(resp), SleepEvent(delay)>>
    /\ attempt' = attempt + 1
    /\ delay' = NextDelay(delay)
    /\ UNCHANGED <<loopVars, pc, caller, batch, max_retries, ret,
                   submitted, calls>>
    /\ UNCHANGED jobVars

\* lines 158-175: the failed attempt after which the retries are exhausted
AttemptFailFinal ==
    /\ pc = "send"
    /\ WhileCond(attempt, max_retries)
    /\ RetriesExhausted(attempt + 1, max_retries)
    /\ \E resp \in Responses :
        /\ ~Is2xx(resp)
        /\ events' = Append(events, PostEvent(resp))
        /\ ret' = [success |-> FALSE, reason |-> FormatReason(RaisedError(resp))]
    /\ attempt' = attempt + 1
    /\ pc' = "ret"
    /\ UNCHANGED <<loopVars, caller, batch, max_retries, delay,
                   submitted, calls>>
    /\ UNCHANGED jobVars

\* line 180: the while loop was never entered
Fallback ==
    /\ pc = "send"
    /\ ~WhileCond(attempt, max_retries)
    /\ ret' = [success |-> FALSE, reason |-> "Unknown failure"]
    /\ pc' = "ret"
    /\ UNCHANGED <<loopVars, caller, batch, max_retries, attempt, delay,
                   events, submitted, calls>>
    /\ UNCHANGED jobVars

\* ------------------------------------- post_batches_with_success_tracking
BatchFull_Strict(bp, bs) == Len(bp) > bs

BatchFull(bp, bs) == Len(bp) >= bs

\* line 266: if batch_payload
NeedsDrain_FullOnly(bp) == Len(bp) >= BATCH_SIZE

NeedsDrain(bp) == bp # <<>>

StreakTripped(fs, max) == fs >= max

\* successful_rows.extend(batch_rows)
ExtendRows_DropLast(list, brows) == list \o SubSeq(brows, 1, Len(brows) - 1)

ExtendRows(list, brows) == list \o brows

\* for r in batch_rows: failed_rows.append(r)
AppendEach_Twice(list, brows) == list \o brows \o brows

AppendEach_Reversed(list, brows) ==
    list \o [k \in 1..Len(brows) |-> brows[Len(brows) + 1 - k]]

AppendEach(list, brows) == list \o brows

\* failure_streak = 0 on success, failure_streak += 1 on failure
NextStreak_NoReset(fs, ok) == IF ok THEN fs ELSE fs + 1

NextStreak(fs, ok) == IF ok THEN 0 ELSE fs + 1

\* batch_payload.append(transformed) is reached only if transform_row returns
PayloadAfterTransform_Always(bp, r, ok) == Append(bp, r)

PayloadAfterTransform(bp, r, ok) == IF ok THEN Append(bp, r) ELSE bp

\* r["FailureReason"] = failure_reason for every r of batch_rows
TagRows_FirstOnly(fr, brows, reason) ==
    [r \in DOMAIN fr |->
        IF brows # <<>> /\ brows[1] = r THEN reason ELSE fr[r]]

TagRows(fr, brows, reason) ==
    [r \in DOMAIN fr |->
        IF \E k \in 1..Len(brows) : brows[k] = r THEN reason ELSE fr[r]]

PostCount(ev) == Cardinality({k \in 1..Len(ev) : ev[k].kind = "post"})

CallRecord(at) ==
    [batch |-> batch, rows |-> batch_rows, caller |-> caller,
     success |-> ret.success, reason |-> ret.reason,
     attempts |-> PostCount(events), at |-> at]

\* lines 233-237 and 246-247: the row is transformed and joins the batch
TransformOk ==
    /\ pc = "loop"
    /\ i < Len(rows)
    /\ rows[i + 1]
    /\ i' = i + 1
    /\ batch_payload' = PayloadAfterTransform(batch_payload, i + 1, rows[i + 1])
    /\ batch_rows' = Append(batch_rows, i + 1)
    /\ UNCHANGED <<rows, failed_rows, successful_rows, failure_streak,
                   FailureReason, tripped, calls>>
    /\ IF BatchFull(batch_payload', BATCH_SIZE)
       THEN StartSend(batch_payload', DefaultMaxRetries, "loop")
       ELSE UNCHANGED <<pc, caller, batch, max_retries, attempt, delay, ret,
                        events, submitted>>
    /\ UNCHANGED jobVars

\* lines 233-234 and 238-244: transform_row raises
TransformFail ==
    /\ pc = "loop"
    /\ i < Len(rows)
    /\ ~rows[i + 1]
    /\ i' = i + 1
    /\ FailureReason' =
           [FailureReason EXCEPT ![i + 1] = FormatReason(TransformError)]
    /\ failed_rows' = Append(failed_rows, i + 1)
    /\ batch_payload' = PayloadAfterTransform(batch_payload, i + 1, rows[i + 1])
    /\ UNCHANGED <<rows, pc, batch_rows, successful_rows,
                   failure_streak, tripped, caller, batch, max_retries,
                   attempt, delay, ret, events, submitted, calls>>
    /\ UNCHANGED jobVars

\* line 232: df.iterrows() is exhausted
LoopExhausted ==
    /\ pc = "loop"
    /\ i = Len(rows)
    /\ pc' = "drain"
    /\ UNCHANGED <<loopVars, caller, batch, max_retries, attempt, delay, ret,
                   events, submitted, calls>>
    /\ UNCHANGED jobVars

\* line 262: break leaves the for loop, control is at line 266
AfterBreak_Abort == "aborted"

AfterBreak_SkipArchive == "report"

AfterBreak == "drain"

\* lines 248-264: the caller in the row loop classifies the batch
ClassifyLoop ==
    /\ pc = "ret"
    /\ caller = "loop"
    /\ IF ret.success
       THEN /\ successful_rows' = ExtendRows(successful_rows, batch_rows)
            /\ calls' = Append(calls, CallRecord(Len(successful_rows)))
            /\ UNCHANGED <<failed_rows, FailureReason>>
       ELSE /\ FailureReason' = TagRows(FailureReason, batch_rows, ret.reason)
            /\ failed_rows' = AppendEach(failed_rows, batch_rows)
            /\ calls' = Append(calls, CallRecord(Len(failed_rows)))
            /\ UNCHANGED successful_rows
    /\ failure_streak' = NextStreak(failure_streak, ret.success)
    /\ IF ~ret.success /\ StreakTripped(failure_streak', MAX_RETRY)
       THEN \* break: lines 263-264 are skipped
            /\ tripped' = TRUE
            /\ pc' = AfterBreak
            /\ UNCHANGED <<batch_payload, batch_rows>>
       ELSE /\ batch_payload' = <<>>
            /\ batch_rows' = <<>>
            /\ pc' = "loop"
            /\ UNCHANGED tripped
    /\ events' = <<>>
    /\ UNCHANGED <<rows, i, caller, batch, max_retries, attempt, delay, ret,
                   submitted>>
    /\ UNCHANGED jobVars

\* lines 266-267, and 275-284 when there is nothing to drain
Drain ==
    /\ pc = "drain"
    /\ UNCHANGED <<loopVars, calls>>
    /\ IF NeedsDrain(batch_payload)
       THEN StartSend(batch_payload, DefaultMaxRetries, "drain")
       ELSE /\ pc' = "done"
            /\ UNCHANGED <<caller, batch, max_retries, attempt, delay, ret,
                           events, submitted>>
    /\ UNCHANGED jobVars

\* lines 268-284: the drain step classifies the batch and the run ends
ClassifyDrain ==
    /\ pc = "ret"
    /\ caller = "drain"
    /\ IF ret.success
       THEN /\ successful_rows' = ExtendRows(successful_rows, batch_rows)
            /\ calls' = Append(calls, CallRecord(Len(successful_rows)))
            /\ UNCHANGED <<failed_rows, FailureReason>>
       ELSE /\ FailureReason' = TagRows(FailureReason, batch_rows, ret.reason)
            /\ failed_rows' = AppendEach(failed_rows, batch_rows)
            /\ calls' = Append(calls, CallRecord(Len(failed_rows)))
            /\ UNCHANGED successful_rows
    /\ pc' = "done"
    /\ events' = <<>>
    /\ UNCHANGED <<rows, i, batch_rows, batch_payload, failure_streak, tripped,
                   caller, batch, max_retries, attempt, delay, ret, submitted>>
    /\ UNCHANGED jobVars

\* ------------------------------------------------------- fetch_all_csvs
RECURSIVE LastSlash(_, _)
LastSlash(str, k) ==
    IF k = 0 THEN 0
    ELSE IF SubSeq(str, k, k) = "/" THEN k ELSE LastSlash(str, k - 1)

\* key.split("/")[-1]
Filename(key) == SubSeq(key, LastSlash(key, Len(key)) + 1, Len(key))

\* str.replace(old, "")
RECURSIVE RemoveAll(_, _)
RemoveAll(str, old) ==
    IF Len(str) < Len(old) THEN str
    ELSE IF SubSeq(str, 1, Len(old)) = old
         THEN RemoveAll(SubSeq(str, Len(old) + 1, Len(str)), old)
         ELSE SubSeq(str, 1, 1) \o RemoveAll(SubSeq(str, 2, Len(str)), old)

EndsWith(str, suf) ==
    Len(str) >= Len(suf)
        /\ SubSeq(str, Len(str) - Len(suf) + 1, Len(str)) = suf

\* line 84: the key is a .csv object directly under the prefix
Selected_AnyDepth(key, prefix) == EndsWith(key, ".csv")

Selected(key, prefix) ==
    /\ EndsWith(key, ".csv")
    /\ LastSlash(key, Len(key)) <= Len(prefix) + 1

\* lines 87-110: the keys of the files read without an exception; a file
\* whose columns are rejected leaves the chunk loop by break and reaches
\* line 102 as well
ProcessedAfter(pk, key, outcome) ==
    IF outcome \in {"ok", "badcols"} THEN Append(pk, key) ELSE pk

\* lines 112-121: the keys fetch_all_csvs returns
ReturnedKeys(df, pk) == IF df = <<>> THEN <<>> ELSE pk

\* lines 80-110: one listed object
FetchFile ==
    /\ pc = "fetch"
    /\ fi < Len(listing)
    /\ fi' = fi + 1
    /\ LET obj == listing[fi + 1]
       IN  IF Selected(obj.key, FOLDER_PREFIX)
           THEN /\ rows' = rows \o obj.rows
                /\ source_file_key' =
                       source_file_key \o [k \in 1..Len(obj.rows) |-> obj.key]
                /\ processed_keys' =
                       ProcessedAfter(processed_keys, obj.key, obj.outcome)
           ELSE UNCHANGED <<rows, source_file_key, processed_keys>>
    /\ UNCHANGED <<pc, FailureReason, dispatchVars, listing, csv_keys, ai,
                   archived, archive_failed, archive_log, gi, puts,
                   upload_log, clock, job_id, job_log>>
    /\ UNCHANGED pipeVars
    /\ UNCHANGED extVars
    /\ UNCHANGED store

\* lines 112-121 and 321-323: fetch_all_csvs returns and main starts
\* post_batches_with_success_tracking on df
FetchReturn ==
    /\ pc = "fetch"
    /\ fi = Len(listing)
    /\ csv_keys' = ReturnedKeys(rows, processed_keys)
    /\ FailureReason' = [r \in 1..Len(rows) |-> NoReason]
    /\ pc' = "loop"
    /\ UNCHANGED <<rows, dispatchVars, listing, fi, processed_keys,
                   source_file_key, ai, archived, archive_failed, archive_log,
                   gi, puts, upload_log, clock, job_id, job_log>>
    /\ UNCHANGED pipeVars
    /\ UNCHANGED extVars
    /\ UNCHANGED store

\* --------------------------------------------------------- archive_files
ArchiveOutcomes == {"ok", "copy_failed", "delete_failed"}

\* line 326: the keys main hands to archive_files
KeysToArchive_Delivered(keys, failed, src) ==
    SelectSeq(keys, LAMBDA key :
        ~\E k \in 1..Len(failed) : src[failed[k]] = key)

KeysToArchive(keys, failed, src) == keys

\* f"{prefix}/archive/{filename}"
ArchiveKeyOf(key, prefix) == prefix \o "/archive/" \o Filename(key)

\* lines 292-313: the exception of a failed copy or delete is caught inside
\* the loop, which goes on with the next key
NextArchiveIndex_Abort(k, outcome, n) == IF outcome = "ok" THEN k + 1 ELSE n

NextArchiveIndex(k, outcome, n) == k + 1

\* lines 297-298: copy_object, then delete_object unless the copy raised
StoreAfterArchive_DeleteAnyway(objs, key, archive_key, outcome) ==
    CASE outcome = "ok" -> (objs \cup {archive_key}) \ {key}
      [] outcome = "copy_failed" -> objs \ {key}
      [] outcome = "delete_failed" -> objs \cup {archive_key}

StoreAfterArchive(objs, key, archive_key, outcome) ==
    CASE outcome = "ok" -> (objs \cup {archive_key}) \ {key}
      [] outcome = "copy_failed" -> objs
      [] outcome = "delete_failed" -> objs \cup {archive_key}

\* lines 292-313: one key of archive_files
ArchiveKey ==
    /\ pc = "done"
    /\ LET keys == KeysToArchive(csv_keys, failed_rows, source_file_key)
       IN  /\ ai < Len(keys)
           /\ \E outcome \in ArchiveOutcomes :
               /\ archive_log' = Append(archive_log,
                      [key |-> keys[ai + 1],
                       archive_key |-> ArchiveKeyOf(keys[ai + 1], FOLDER_PREFIX),
                       outcome |-> outcome])
               /\ archived' =
                      IF outcome = "ok"
                      THEN Append(archived,
                                  ArchiveKeyOf(keys[ai + 1], FOLDER_PREFIX))
                      ELSE archived
               /\ archive_failed' =
                      IF outcome = "ok" THEN archive_failed
                      ELSE Append(archive_failed, keys[ai + 1])
               /\ ai' = NextArchiveIndex(ai, outcome, Len(keys))
               /\ store' = StoreAfterArchive(store, keys[ai + 1],
                                ArchiveKeyOf(keys[ai + 1], FOLDER_PREFIX),
                                outcome)
    /\ UNCHANGED <<rows, pc, FailureReason, dispatchVars, listing, fi,
                   processed_keys, source_file_key, csv_keys, gi, puts,
                   upload_log, clock, job_id, job_log>>
    /\ UNCHANGED pipeVars
    /\ UNCHANGED extVars

\* line 292: the for loop over the keys is exhausted
ArchiveDone_Early(k, n) == TRUE

ArchiveDone(k, n) == k >= n

\* archive_files returns and main goes on to lines 328-330
ArchiveReturn ==
    /\ pc = "done"
    /\ ArchiveDone(ai, Len(KeysToArchive(csv_keys, failed_rows,
                                         source_file_key)))
    /\ pc' = "report"
    /\ UNCHANGED <<rows, FailureReason, dispatchVars, jobVars>>

\* ---------------------------------------------- upload_failed_rows_to_s3
\* the groups of df.groupby("source_file_key"), in key order, which is the
\* order of the listing
FailedGroups_AllKeys(failed, src, objs) ==
    SelectSeq([k \in 1..Len(objs) |-> objs[k].key],
              LAMBDA key : \E k \in 1..Len(src) : src[k] = key)

FailedGroups(failed, src, objs) ==
    SelectSeq([k \in 1..Len(objs) |-> objs[k].key],
              LAMBDA key : \E k \in 1..Len(failed) : src[failed[k]] = key)

\* the rows of one group, in the order of failed_rows
GroupRows(failed, src, key) == SelectSeq(failed, LAMBDA r : src[r] = key)

\* lines 200-202
FailedKeyOf(key, prefix, now) ==
    prefix \o "/failed/" \o RemoveAll(Filename(key), ".csv")
           \o "_failed_rows_" \o ToString(now) \o ".csv"

\* lines 194 and 214-219: the except clause ends the group, the for loop
\* takes the next one
NextGroupIndex_Abort(g, ok, n) == IF ok THEN g + 1 ELSE n

NextGroupIndex(g, ok, n) == g + 1

\* lines 194-219: one group of upload_failed_rows_to_s3
UploadGroup ==
    /\ pc = "report"
    /\ LET groups == FailedGroups(failed_rows, source_file_key, listing)
       IN  /\ gi < Len(groups)
           /\ \E now \in clock..MaxClock, ok \in BOOLEAN :
               /\ gi' = NextGroupIndex(gi, ok, Len(groups))
               /\ clock' = now
               /\ upload_log' = Append(upload_log,
                      [source |-> groups[gi + 1], ok |-> ok])
               /\ puts' =
                      IF ok
                      THEN Append(puts,
                               [key |-> FailedKeyOf(groups[gi + 1],
                                                    FOLDER_PREFIX, now),
                                source |-> groups[gi + 1],
                                rows |-> GroupRows(failed_rows, source_file_key,
                                                   groups[gi + 1])])
                      ELSE puts
               /\ store' =
                      IF ok
                      THEN store \cup {FailedKeyOf(groups[gi + 1],
                                                   FOLDER_PREFIX, now)}
                      ELSE store
    /\ UNCHANGED <<rows, pc, FailureReason, dispatchVars, listing, fi,
                   processed_keys, source_file_key, csv_keys, ai, archived,
                   archive_failed, archive_log, job_id, job_log>>
    /\ UNCHANGED pipeVars
    /\ UNCHANGED extVars

\* line 317
JobIdOf(name, now) == name \o "-" \o ToString(now)

\* line 318
JobStart(id) == [status |-> "JobStart", jobId |-> id]

\* lines 332-343
JobCompleted(id, df, ok_rows, ko_rows, keys) ==
    [status |-> "Job Completed", jobId |-> id, rowCount |-> Len(df),
     successfulRows |-> Len(ok_rows), failedRows |-> Len(ko_rows),
     processedFiles |-> keys]

\* lines 332-343: upload_failed_rows_to_s3 has returned, the job summary
ReportReturn ==
    /\ pc = "report"
    /\ gi >= Len(FailedGroups(failed_rows, source_file_key, listing))
    /\ job_log' = Append(job_log,
                     JobCompleted(job_id, rows, successful_rows, failed_rows,
                                  csv_keys))
    /\ pc' = "completed"
    /\ UNCHANGED <<rows, FailureReason, dispatchVars, listing, fi,
                   processed_keys, source_file_key, csv_keys, ai, archived,
                   archive_failed, archive_log, gi, puts, upload_log, clock,
                   job_id>>
    /\ UNCHANGED pipeVars
    /\ UNCHANGED extVars
    /\ UNCHANGED store

\* --------------------------------------------- the except clause of main
\* the control points of the try block of main (lines 320-343) that are
\* outside every inner try block, and the stage each belongs to: the listing
\* of fetch_all_csvs (lines 74-85), the session and the row loop of
\* post_batches_with_success_tracking (lines 231-232, 246, 266, 275),
\* the key loop of archive_files (lines 289-294), and the conversion and
\* grouping of the failed rows (lines 328-329, 185-194)
StageOf(p) ==
    CASE p = "fetch" -> "fetch"
      [] p \in {"loop", "drain"} -> "dispatch"
      [] p = "done" -> "archive"
      [] p = "report" -> "report"
      [] OTHER -> "none"

\* lines 346-354
JobFailed(id, reason) ==
    [status |-> "Job Failed", jobId |-> id, reason |-> reason]

\* lines 345-355: the record is logged and the exception raised again
MainHandler_Swallow(log, id, reason) ==
    [job_log |-> Append(log, JobFailed(id, reason)), pc |-> "returned"]

MainHandler(log, id, reason) ==
    [job_log |-> Append(log, JobFailed(id, reason)), pc |-> "raised"]

\* an exception escapes the stage in progress and reaches line 345
MainExcept ==
    /\ StageOf(pc) # "none"
    /\ LET h == MainHandler(job_log, job_id, "error in " \o StageOf(pc))
       IN  /\ job_log' = h.job_log
           /\ pc' = h.pc
    /\ UNCHANGED <<rows, FailureReason, dispatchVars, listing, fi,
                   processed_keys, source_file_key, csv_keys, ai, archived,
                   archive_failed, archive_log, gi, puts, upload_log, clock,
                   job_id>>
    /\ UNCHANGED pipeVars
    /\ UNCHANGED extVars
    /\ UNCHANGED store

\* ---------------------------------------------- pipeline/archiver.py
\* what shutil.move does with a file: a missing source raises
\* FileNotFoundError; an existing one is moved, or the move raises
\* shutil.Error ("already exists" or another) or another OSError
MoveOutcomes(present) ==
    IF present
    THEN {"ok", "shutil.Error: already exists", "shutil.Error", "OSError"}
    ELSE {"FileNotFoundError"}

\* lines 22-30: archive_raw moves the file if os.path.exists finds it and
\* logs a warning if not; the except clause logs and passes
RawResult(present, moved) == [outcome |-> "returned", error |-> "none"]

\* lines 38-53: archive_processed passes over the "already exists" error
\* of shutil and raises every other exception again
ProcessedResult(moved) ==
    IF moved \in {"ok", "shutil.Error: already exists"}
    THEN [outcome |-> "returned", error |-> "none"]
    ELSE [outcome |-> "raised", error |-> moved]

\* line 23: the move is tried only if os.path.exists finds the file
RawMoves(raw_filename) ==
    IF raw_filename \in input_dir THEN MoveOutcomes(TRUE) ELSE {"skipped"}

\* lines 20-30: what one call of archive_raw does to the directories
ArchiveRawCall(raw_filename, moved) ==
    /\ IF moved = "ok"
       THEN /\ input_dir' = input_dir \ {raw_filename}
            /\ archive_input_dir' = archive_input_dir \cup {raw_filename}
       ELSE UNCHANGED <<input_dir, archive_input_dir>>
    /\ arch_calls' = Append(arch_calls,
           [op |-> "archive_raw", file |-> raw_filename,
            present |-> raw_filename \in input_dir, moved |-> moved,
            result |-> RawResult(raw_filename \in input_dir, moved)])
    /\ UNCHANGED <<processed_dir, archive_processed_dir>>

\* lines 36-53: what one call of archive_processed does to the directories
ArchiveProcessedCall(processed_file_name, moved) ==
    /\ IF moved = "ok"
       THEN /\ processed_dir' = processed_dir \ {processed_file_name}
            /\ archive_processed_dir' =
                   archive_processed_dir \cup {processed_file_name}
       ELSE UNCHANGED <<processed_dir, archive_processed_dir>>
    /\ arch_calls' = Append(arch_calls,
           [op |-> "archive_processed", file |-> processed_file_name,
            present |-> processed_file_name \in processed_dir,
            moved |-> moved, result |-> ProcessedResult(moved)])
    /\ UNCHANGED <<input_dir, archive_input_dir>>

\* lines 16-30: archive_raw(raw_filename)
archive_raw(raw_filename) ==
    /\ pc = "archiver"
    /\ Len(arch_calls) < MaxArchiveCalls
    /\ \E moved \in RawMoves(raw_filename) :
           ArchiveRawCall(raw_filename, moved)
    /\ UNCHANGED <<rows, pc, FailureReason, dispatchVars, listing, fi,
                   processed_keys, source_file_key, csv_keys, ai, archived,
                   archive_failed, archive_log, gi, puts, upload_log, clock,
                   job_id, job_log>>
    /\ UNCHANGED store
    /\ UNCHANGED extVars

\* lines 32-53: archive_processed(processed_file_path)
archive_processed(processed_file_name) ==
    /\ pc = "archiver"
    /\ Len(arch_calls) < MaxArchiveCalls
    /\ \E moved \in MoveOutcomes(processed_file_name \in processed_dir) :
           ArchiveProcessedCall(processed_file_name, moved)
    /\ UNCHANGED <<rows, pc, FailureReason, dispatchVars, listing, fi,
                   processed_keys, source_file_key, csv_keys, ai, archived,
                   archive_failed, archive_log, gi, puts, upload_log, clock,
                   job_id, job_log>>
    /\ UNCHANGED store
    /\ UNCHANGED extVars

\* ------------------------------------------------- pipeline/flow.py
\* the names of the raw input files and of the processed chunk files
RawName(k) == "raw" \o ToString(k) \o ".xlsx"

ProcessedName(raw_filename, c) == raw_filename \o "_part" \o ToString(c)

\* extractor.list_files(): the Excel files of input_dir, in directory order
Orders(S) ==
    {o \in [1..Cardinality(S) -> S] : \A x \in S : \E k \in DOMAIN o : o[k] = x}

\* an entry of the history; chunk is the number of chunks in the entry of
\* extract
FlowEntry(step, file, c) == [step |-> step, file |-> file, chunk |-> c]

\* an exception leaves deepparse_flow: nothing in the function catches it
FlowRaise(step, file, c) ==
    /\ pc' = "flow_raised"
    /\ flow_log' = Append(flow_log, FlowEntry(step \o " raised", file, c))

flowRest == <<handlerVars, convVars, rows, FailureReason, dispatchVars, store, listing, fi,
              processed_keys, source_file_key, csv_keys, ai, archived,
              archive_failed, archive_log, gi, puts, upload_log, clock,
              job_id, job_log>>

\* lines 19-46: the configuration, the directories, the components and the
\* list of files. DatabaseRepository.__init__ (repository.py 9-17) has no
\* parameter config, so line 32 raises TypeError with the class of the
\* repository; with the components replaced, as test_flow.py does, it returns
FlowStart ==
    /\ pc = "flow_start"
    /\ IF components = "repository"
       THEN /\ FlowRaise("DatabaseRepository", "", 0)
            /\ UNCHANGED <<files, file_idx>>
       ELSE \E o \in Orders(input_dir) :
                /\ files' = o
                /\ file_idx' = IF o = <<>> THEN 0 ELSE 1
                /\ pc' = IF o = <<>> THEN "flow_returned" ELSE "flow_extract"
                /\ flow_log' = Append(flow_log, FlowEntry("list_files", "", 0))
    /\ UNCHANGED <<components, chunks, chunk_idx, pipeVars, flowRest>>

\* line 49: chunks = extractor.extract(raw_filename)
FlowExtract ==
    /\ pc = "flow_extract"
    /\ \/ \E n \in 0..MaxChunks :
              /\ chunks' = n
              /\ chunk_idx' = IF n = 0 THEN 0 ELSE 1
              /\ pc' = IF n = 0 THEN "flow_archive_raw" ELSE "flow_parse"
              /\ flow_log' =
                     Append(flow_log, FlowEntry("extract", files[file_idx], n))
       \/ /\ FlowRaise("extract", files[file_idx], 0)
          /\ UNCHANGED <<chunks, chunk_idx>>
    /\ UNCHANGED <<components, files, file_idx, pipeVars, flowRest>>

\* line 54: parser_svc.parse_file writes the processed file and returns its
\* path
FlowParse ==
    /\ pc = "flow_parse"
    /\ \/ /\ processed_dir' =
                 processed_dir
                     \cup {ProcessedName(files[file_idx], chunk_idx)}
          /\ pc' = "flow_save"
          /\ flow_log' = Append(flow_log,
                 FlowEntry("parse_file", files[file_idx], chunk_idx))
       \/ /\ FlowRaise("parse_file", files[file_idx], chunk_idx)
          /\ UNCHANGED processed_dir
    /\ UNCHANGED <<components, files, file_idx, chunks, chunk_idx, input_dir,
                   archive_input_dir, archive_processed_dir, arch_calls,
                   flowRest>>

\* line 55: repo.save(df)
FlowSave ==
    /\ pc = "flow_save"
    /\ \/ /\ pc' = "flow_archive_processed"
          /\ flow_log' = Append(flow_log,
                 FlowEntry("save", files[file_idx], chunk_idx))
       \/ FlowRaise("save", files[file_idx], chunk_idx)
    /\ UNCHANGED <<components, files, file_idx, chunks, chunk_idx, pipeVars,
                   flowRest>>

\* lines 58-68: archiver.archive_processed(proc_path), then the removal of
\* the extracted chunk file, whose OSError is caught; the next chunk, or the
\* end of the inner loop
FlowArchiveProcessed ==
    /\ pc = "flow_archive_processed"
    /\ LET name == ProcessedName(files[file_idx], chunk_idx)
       IN  \E moved \in MoveOutcomes(name \in processed_dir) :
               /\ ArchiveProcessedCall(name, moved)
               /\ IF ProcessedResult(moved).outcome = "raised"
                  THEN /\ FlowRaise("archive_processed", files[file_idx],
                                    chunk_idx)
                       /\ UNCHANGED chunk_idx
                  ELSE /\ flow_log' = Append(flow_log,
                              FlowEntry("archive_processed", files[file_idx],
                                        chunk_idx))
                       /\ chunk_idx' = chunk_idx + 1
                       /\ pc' = IF chunk_idx < chunks
                                THEN "flow_parse" ELSE "flow_archive_raw"
    /\ UNCHANGED <<components, files, file_idx, chunks, flowRest>>

\* line 71: archiver.archive_raw(raw_filename), then the next file or the
\* end of the flow
FlowArchiveRaw ==
    /\ pc = "flow_archive_raw"
    /\ \E moved \in RawMoves(files[file_idx]) :
           ArchiveRawCall(files[file_idx], moved)
    /\ flow_log' = Append(flow_log, FlowEntry("archive_raw", files[file_idx], 0))
    /\ file_idx' = file_idx + 1
    /\ pc' = IF file_idx < Len(files) THEN "flow_extract" ELSE "flow_returned"
    /\ UNCHANGED <<components, files, chunks, chunk_idx, flowRest>>

\* ------------------------------------------ jobs/handler.py
SOURCE_FOLDER_PREFIX == "src"

\* datetime.utcnow().date() at the calls of is_valid_folder
Dates == {"2026-11-06", "2026-11-07"}

Buckets == {"b1", "b2"}

\* str(Path(key).parent) of the object keys of the event
Folders ==
    {SOURCE_FOLDER_PREFIX \o "/date=2026-11-06",
     SOURCE_FOLDER_PREFIX \o "/date=2026-11-05",
     SOURCE_FOLDER_PREFIX}

\* the records of an event: a record with bucket name and object key, a
\* record without bucket name or key, and a record whose s3, bucket or object
\* entry is no mapping or whose key is no string, on which lines 154-156
\* raise AttributeError
RecordKinds ==
    [kind : {"s3"}, bucket : Buckets, folder : Folders]
    \cup {[kind |-> "missing", bucket |-> "", folder |-> ""],
          [kind |-> "malformed", bucket |-> "", folder |-> ""]}

\* lines 53-95: the folder is SOURCE_FOLDER_PREFIX/date=YYYY-MM-DD with the
\* date of today
is_valid_folder(folder_prefix, today) ==
    folder_prefix = SOURCE_FOLDER_PREFIX \o "/date=" \o today

\* line 169
FolderId(bucket, folder_prefix) == bucket \o "/" \o folder_prefix

NoResponse == [statusCode |-> 0, details |-> <<>>]

\* lines 170-172: a folder already seen is passed over
AlreadySeen(seen, folder_id) == folder_id \in seen

\* line 196
StatusOf(jobs) == IF jobs # <<>> THEN 200 ELSE 207

handlerRest == <<flowVars, convVars, pipeVars, rows, FailureReason, dispatchVars, store,
                 listing, fi, processed_keys, source_file_key, csv_keys, ai,
                 archived, archive_failed, archive_log, gi, puts, upload_log,
                 clock, job_id, job_log>>

\* lines 142-152
HandlerStart ==
    /\ pc = "handler_start"
    /\ IF records = <<>>
       THEN /\ response' = [statusCode |-> 400, details |-> <<>>]
            /\ pc' = "handler_returned"
       ELSE /\ pc' = "handler_loop"
            /\ UNCHANGED response
    /\ UNCHANGED <<records, rec_idx, triggered_jobs, seen_folders, job_runs,
                   rec_log, handlerRest>>

\* lines 153-193: one record of the for loop
HandleRecord ==
    /\ pc = "handler_loop"
    /\ rec_idx < Len(records)
    /\ rec_idx' = rec_idx + 1
    /\ LET record == records[rec_idx + 1]
           folder_id == FolderId(record.bucket, record.folder)
           Skip(outcome) ==
               /\ rec_log' = Append(rec_log, outcome)
               /\ pc' = "handler_loop"
               /\ UNCHANGED <<triggered_jobs, job_runs, response>>
       IN  CASE record.kind = "malformed" ->
                 \* lines 204-211
                 /\ rec_log' = Append(rec_log, "raised")
                 /\ response' = [statusCode |-> 500, details |-> <<>>]
                 /\ pc' = "handler_returned"
                 /\ UNCHANGED <<triggered_jobs, seen_folders, job_runs>>
             [] record.kind = "missing" ->
                 /\ Skip("missing")
                 /\ UNCHANGED seen_folders
             [] OTHER ->
                 IF AlreadySeen(seen_folders, folder_id)
                 THEN /\ Skip("seen")
                      /\ UNCHANGED seen_folders
                 ELSE /\ seen_folders' = seen_folders \cup {folder_id}
                      /\ \E today \in Dates :
                             IF ~is_valid_folder(record.folder, today)
                             THEN Skip("invalid")
                             \* lines 186-193: the exception of
                             \* trigger_glue_job is caught and the loop
                             \* goes on
                             ELSE \/ LET id == "jr-"
                                               \o ToString(Len(job_runs) + 1)
                                     IN  /\ job_runs' = Append(job_runs,
                                                [bucket |-> record.bucket,
                                                 folder |-> record.folder,
                                                 jobRunId |-> id])
                                         /\ triggered_jobs' =
                                                Append(triggered_jobs,
                                                    [folder |-> record.folder,
                                                     jobRunId |-> id])
                                         /\ rec_log' =
                                                Append(rec_log, "started")
                                         /\ pc' = "handler_loop"
                                         /\ UNCHANGED response
                                  \/ /\ rec_log' =
                                            Append(rec_log, "start_failed")
                                     /\ pc' = "handler_loop"
                                     /\ UNCHANGED <<triggered_jobs, job_runs,
                                                    response>>
    /\ UNCHANGED <<records, handlerRest>>

\* lines 195-202
HandlerReturn ==
    /\ pc = "handler_loop"
    /\ rec_idx = Len(records)
    /\ response' = [statusCode |-> StatusOf(triggered_jobs),
                    details |-> triggered_jobs]
    /\ pc' = "handler_returned"
    /\ UNCHANGED <<records, rec_idx, triggered_jobs, seen_folders, job_runs,
                   rec_log, handlerRest>>

\* ------------------------------------------ script/converter.py
\* the ids of the chunks of the input file: chunk_id_counter counts from 0
ChunkIds == 0..(num_chunks - 1)

\* queue.Queue.put: the item joins the queue and is one more unfinished task
QueuePut(items, unfinished, chunk_id) ==
    [items |-> Append(items, chunk_id), unfinished |-> unfinished + 1]

\* queue.Queue.task_done: ValueError if called more often than there were
\* items put, else one unfinished task less; no item leaves the queue
TaskDone(unfinished) ==
    IF unfinished = 0
    THEN [raised |-> TRUE, unfinished |-> 0]
    ELSE [raised |-> FALSE, unfinished |-> unfinished - 1]

convRest == <<flowVars, handlerVars, pipeVars, rows, FailureReason,
              dispatchVars, store, listing, fi, processed_keys,
              source_file_key, csv_keys, ai, archived, archive_failed,
              archive_log, gi, puts, upload_log, clock, job_id, job_log>>

\* lines 21-46 and 78-79: the checks of the paths, the queue, the event and
\* the start of the writer thread
ConvStart ==
    /\ pc = "conv_start"
    /\ \/ /\ pc' = "conv_returned"
          /\ conversion_successful' = FALSE
          /\ faults' = faults \cup {"input"}
          /\ UNCHANGED writer_pc
       \/ /\ pc' = "conv_submit"
          /\ writer_pc' = "open"
          /\ UNCHANGED <<conversion_successful, faults>>
    /\ UNCHANGED <<num_chunks, futures, taken, queue_items, unfinished_tasks,
                   expected_chunk_id, stop_writer_event, written, convRest>>

\* lines 82-97: the input file is read and its chunks are submitted to the
\* executor; an error of the read goes to the except clauses of lines
\* 108-117 after the executor has shut down
ConvSubmit ==
    /\ pc = "conv_submit"
    /\ \/ /\ futures' = [c \in ChunkIds |-> "running"]
          /\ pc' = "conv_collect"
          /\ UNCHANGED <<conversion_successful, faults>>
       \/ /\ conversion_successful' = FALSE
          /\ faults' = faults \cup {"read"}
          /\ pc' = "conv_finally"
          /\ UNCHANGED futures
    /\ UNCHANGED <<num_chunks, taken, queue_items, unfinished_tasks,
                   expected_chunk_id, stop_writer_event, writer_pc, written,
                   convRest>>

\* lines 15-18: a worker thread finishes _process_chunk of one chunk
WorkerCompletes(c) ==
    /\ pc \in {"conv_collect", "conv_finally"}
    /\ c \in DOMAIN futures
    /\ futures[c] = "running"
    /\ \/ /\ futures' = [futures EXCEPT ![c] = "done"]
          /\ UNCHANGED faults
       \/ /\ futures' = [futures EXCEPT ![c] = "raised"]
          /\ faults' = faults \cup {"worker"}
    /\ UNCHANGED <<pc, num_chunks, taken, queue_items, unfinished_tasks,
                   expected_chunk_id, conversion_successful,
                   stop_writer_event, writer_pc, written, convRest>>

\* lines 99-106: as_completed yields a finished future; its result is put
\* on the queue, its exception ends the loop
ConvCollect(c) ==
    /\ pc = "conv_collect"
    /\ c \in DOMAIN futures
    /\ c \notin taken
    /\ futures[c] # "running"
    /\ taken' = taken \cup {c}
    /\ IF futures[c] = "done"
       THEN LET q == QueuePut(queue_items, unfinished_tasks, c)
            IN  /\ queue_items' = q.items
                /\ unfinished_tasks' = q.unfinished
                /\ pc' = IF taken' = DOMAIN futures
                         THEN "conv_finally" ELSE "conv_collect"
                /\ UNCHANGED conversion_successful
       ELSE /\ conversion_successful' = FALSE
            /\ pc' = "conv_finally"
            /\ UNCHANGED <<queue_items, unfinished_tasks>>
    /\ UNCHANGED <<num_chunks, futures, expected_chunk_id, stop_writer_event,
                   writer_pc, written, faults, convRest>>

\* line 99 for a file without chunks: as_completed yields nothing
ConvCollectNone ==
    /\ pc = "conv_collect"
    /\ DOMAIN futures = {}
    /\ pc' = "conv_finally"
    /\ UNCHANGED <<convVars, convRest>>

\* the end of the with block of line 82, which waits for the worker
\* threads, and lines 119-120: join() returns when no task is unfinished
ConvJoinQueue ==
    /\ pc = "conv_finally"
    /\ \A c \in DOMAIN futures : futures[c] # "running"
    /\ unfinished_tasks = 0
    /\ stop_writer_event' = TRUE
    /\ pc' = "conv_join_writer"
    /\ UNCHANGED <<num_chunks, futures, taken, queue_items, unfinished_tasks,
                   expected_chunk_id, conversion_successful, writer_pc,
                   written, faults, convRest>>

\* lines 121-132: join(timeout=5) returns when the writer has ended or the
\* five seconds have passed
ConvJoinWriter ==
    /\ pc = "conv_join_writer"
    /\ IF writer_pc \in {"ended", "died"}
       THEN UNCHANGED <<conversion_successful, faults>>
       ELSE /\ conversion_successful' = FALSE
            /\ faults' = faults \cup {"timeout"}
    /\ pc' = "conv_returned"
    /\ UNCHANGED <<num_chunks, futures, taken, queue_items, unfinished_tasks,
                   expected_chunk_id, stop_writer_event, writer_pc, written,
                   convRest>>

\* lines 50-51 and 71-73: the writer opens the output file
WriterOpen ==
    /\ writer_pc = "open"
    /\ \/ /\ writer_pc' = "loop"
          /\ UNCHANGED <<conversion_successful, faults>>
       \/ /\ writer_pc' = "finally"
          /\ conversion_successful' = FALSE
          /\ faults' = faults \cup {"open"}
    /\ UNCHANGED <<pc, num_chunks, futures, taken, queue_items,
                   unfinished_tasks, expected_chunk_id, stop_writer_event,
                   written, convRest>>

\* lines 54-63 and 67-70: the writer gets a chunk. The expected chunk is
\* written and its task is done, unless the write raises. Any other chunk
\* is put back and threading.sleep is called: the module threading has no
\* function sleep, the call raises AttributeError before task_done() and
\* the except clause of line 67 ends the loop
WriterGet ==
    /\ writer_pc = "loop"
    /\ queue_items # <<>>
    /\ LET chunk_id == Head(queue_items)
       IN  IF chunk_id = expected_chunk_id
           THEN \/ /\ written' = Append(written, chunk_id)
                   /\ expected_chunk_id' = expected_chunk_id + 1
                   /\ queue_items' = Tail(queue_items)
                   /\ unfinished_tasks' = TaskDone(unfinished_tasks).unfinished
                   /\ UNCHANGED <<writer_pc, conversion_successful, faults>>
                \/ /\ queue_items' = Tail(queue_items)
                   /\ conversion_successful' = FALSE
                   /\ writer_pc' = "finally"
                   /\ faults' = faults \cup {"write"}
                   /\ UNCHANGED <<written, expected_chunk_id,
                                  unfinished_tasks>>
           ELSE LET q == QueuePut(Tail(queue_items), unfinished_tasks,
                                  chunk_id)
                IN  /\ queue_items' = q.items
                    /\ unfinished_tasks' = q.unfinished
                    /\ conversion_successful' = FALSE
                    /\ writer_pc' = "finally"
                    /\ UNCHANGED <<written, expected_chunk_id, faults>>
    /\ UNCHANGED <<pc, num_chunks, futures, taken, stop_writer_event,
                   convRest>>

\* lines 64-66: the get times out on the empty queue and the stop event is
\* set
WriterStop ==
    /\ writer_pc = "loop"
    /\ queue_items = <<>>
    /\ stop_writer_event
    /\ writer_pc' = "finally"
    /\ UNCHANGED <<pc, num_chunks, futures, taken, queue_items,
                   unfinished_tasks, expected_chunk_id, conversion_successful,
                   stop_writer_event, written, faults, convRest>>

\* lines 74-76: one test of the while loop of the finally clause, and one
\* task_done(), which takes no item from the queue and whose ValueError
\* ends the thread
WriterFinally ==
    /\ writer_pc = "finally"
    /\ IF queue_items = <<>>
       THEN /\ writer_pc' = "ended"
            /\ UNCHANGED <<queue_items, unfinished_tasks>>
       ELSE /\ UNCHANGED queue_items
            /\ unfinished_tasks' = TaskDone(unfinished_tasks).unfinished
            /\ writer_pc' = IF TaskDone(unfinished_tasks).raised
                            THEN "died" ELSE "finally"
    /\ UNCHANGED <<pc, num_chunks, futures, taken, expected_chunk_id,
                   conversion_successful, stop_writer_event, written, faults,
                   convRest>>

\* ------------------------------------------------------- specifications
\* no Archiver of the pipeline is in use
NoFlow ==
    /\ components = "none"
    /\ files = <<>>
    /\ file_idx = 0
    /\ chunks = 0
    /\ chunk_idx = 0
    /\ flow_log = <<>>

NoHandler ==
    /\ records = <<>>
    /\ rec_idx = 0
    /\ triggered_jobs = <<>>
    /\ seen_folders = {}
    /\ response = NoResponse
    /\ job_runs = <<>>
    /\ rec_log = <<>>

NoConverter ==
    /\ num_chunks = 0
    /\ futures = <<>>
    /\ taken = {}
    /\ queue_items = <<>>
    /\ unfinished_tasks = 0
    /\ expected_chunk_id = 0
    /\ conversion_successful = TRUE
    /\ stop_writer_event = FALSE
    /\ writer_pc = "none"
    /\ written = <<>>
    /\ faults = {}

\* nothing but the job and the Archiver is in use
NoExt == NoFlow /\ NoHandler /\ NoConverter

NoPipeline ==
    /\ store = {}
    /\ input_dir = {}
    /\ processed_dir = {}
    /\ archive_input_dir = {}
    /\ archive_processed_dir = {}
    /\ arch_calls = <<>>

\* the job of main has not run: df is given as it is
NoJob ==
    /\ listing = <<>>
    /\ fi = 0
    /\ processed_keys = <<>>
    /\ source_file_key = [r \in 1..Len(rows) |-> FOLDER_PREFIX \o "/f1.csv"]
    /\ csv_keys = <<>>
    /\ ai = 0
    /\ archived = <<>>
    /\ archive_failed = <<>>
    /\ archive_log = <<>>
    /\ gi = 0
    /\ puts = <<>>
    /\ upload_log = <<>>
    /\ clock = 0
    /\ job_id = JobIdOf(GLUE_JOB_NAME, clock)
    /\ job_log = <<>>

RowSeqs == UNION {[1..n -> BOOLEAN] : n \in 0..MaxRows}

\* a run of post_batches_with_success_tracking(df, endpoint, BATCH_SIZE)
Init ==
    /\ rows \in RowSeqs
    /\ i = 0
    /\ pc = "loop"
    /\ batch_rows = <<>>
    /\ batch_payload = <<>>
    /\ failed_rows = <<>>
    /\ successful_rows = <<>>
    /\ failure_streak = 0
    /\ FailureReason = [r \in 1..Len(rows) |-> NoReason]
    /\ caller = "loop"
    /\ batch = <<>>
    /\ max_retries = DefaultMaxRetries
    /\ attempt = 0
    /\ delay = InitialDelay
    /\ ret = [success |-> FALSE, reason |-> NoReason]
    /\ events = <<>>
    /\ submitted = <<>>
    /\ calls = <<>>
    /\ tripped = FALSE
    /\ NoJob
    /\ NoPipeline
    /\ NoExt

Next ==
    \/ TransformOk
    \/ TransformFail
    \/ LoopExhausted
    \/ AttemptOk
    \/ AttemptFailRetry
    \/ AttemptFailFinal
    \/ ClassifyLoop
    \/ Drain
    \/ ClassifyDrain

Spec == Init /\ [][Next]_vars

\* one call send_batch_async(session, batch, endpoint, max_retries)
InitSend ==
    /\ rows \in {[r \in 1..n |-> TRUE] : n \in 1..BATCH_SIZE}
    /\ i = Len(rows)
    /\ pc = "send"
    /\ batch_rows = [r \in 1..Len(rows) |-> r]
    /\ batch_payload = batch_rows
    /\ failed_rows = <<>>
    /\ successful_rows = <<>>
    /\ failure_streak = 0
    /\ FailureReason = [r \in 1..Len(rows) |-> NoReason]
    /\ caller = "direct"
    /\ batch = batch_payload
    /\ max_retries \in -1..MaxRetriesArg
    /\ attempt = 0
    /\ delay = InitialDelay
    /\ ret = [success |-> FALSE, reason |-> NoReason]
    /\ events = <<>>
    /\ submitted = <<[batch |-> batch_payload, afterTrip |-> FALSE]>>
    /\ calls = <<>>
    /\ tripped = FALSE
    /\ NoJob
    /\ NoPipeline
    /\ NoExt

NextSend ==
    \/ AttemptOk
    \/ AttemptFailRetry
    \/ AttemptFailFinal
    \/ Fallback

SpecSend == InitSend /\ [][NextSend]_vars

\* what reading a source file gives: its rows, a rejection of its columns,
\* or an exception, before any chunk or after a chunk of one row
FileContents ==
    [outcome : {"ok"}, rows : UNION {[1..n -> BOOLEAN] : n \in 0..MaxJobRows}]
    \cup [outcome : {"badcols"}, rows : {<<>>}]
    \cup [outcome : {"readerror"}, rows : {<<>>, <<TRUE>>}]

\* the source files of the job
SourceKeys == <<FOLDER_PREFIX \o "/f1.csv", FOLDER_PREFIX \o "/f2.csv">>

\* the objects under the prefix, in key order: the archive copy an earlier
\* run made of the first source file, the two source files, the failed-row
\* artifact an earlier run wrote for the first source file, and an object
\* that is no .csv file
KeyPool ==
    <<ArchiveKeyOf(SourceKeys[1], FOLDER_PREFIX), SourceKeys[1], SourceKeys[2],
      FailedKeyOf(SourceKeys[1], FOLDER_PREFIX, 0),
      FOLDER_PREFIX \o "/notes.txt">>

IsSourceKey(key) == \E k \in 1..Len(SourceKeys) : SourceKeys[k] = key

ObjectsAt(k) ==
    IF IsSourceKey(KeyPool[k])
    THEN {[key |-> KeyPool[k], outcome |-> c.outcome, rows |-> c.rows] :
              c \in FileContents}
    ELSE {[key |-> KeyPool[k], outcome |-> "ok", rows |-> <<>>]}

\* the listings of the objects 1..k of the pool; a source file may be
\* missing, the other objects are there
RECURSIVE Listings(_)
Listings(k) ==
    IF k = 0 THEN {<<>>}
    ELSE (IF IsSourceKey(KeyPool[k]) THEN Listings(k - 1) ELSE {})
         \cup {Append(l, obj) : l \in Listings(k - 1), obj \in ObjectsAt(k)}

RECURSIVE TotalRows(_)
TotalRows(l) ==
    IF l = <<>> THEN 0 ELSE Len(l[1].rows) + TotalRows(Tail(l))

JobListings == {l \in Listings(Len(KeyPool)) : TotalRows(l) <= MaxJobRows}

\* a run of main
InitMain ==
    /\ listing \in JobListings
    /\ rows = <<>>
    /\ i = 0
    /\ pc = "fetch"
    /\ batch_rows = <<>>
    /\ batch_payload = <<>>
    /\ failed_rows = <<>>
    /\ successful_rows = <<>>
    /\ failure_streak = 0
    /\ FailureReason = <<>>
    /\ caller = "loop"
    /\ batch = <<>>
    /\ max_retries = DefaultMaxRetries
    /\ attempt = 0
    /\ delay = InitialDelay
    /\ ret = [success |-> FALSE, reason |-> NoReason]
    /\ events = <<>>
    /\ submitted = <<>>
    /\ calls = <<>>
    /\ tripped = FALSE
    /\ fi = 0
    /\ processed_keys = <<>>
    /\ source_file_key = <<>>
    /\ csv_keys = <<>>
    /\ ai = 0
    /\ archived = <<>>
    /\ archive_failed = <<>>
    /\ archive_log = <<>>
    /\ gi = 0
    /\ puts = <<>>
    /\ upload_log = <<>>
    /\ clock = 0
    /\ job_id = JobIdOf(GLUE_JOB_NAME, clock)
    /\ job_log = <<JobStart(job_id)>>
    /\ input_dir = {}
    /\ processed_dir = {}
    /\ archive_input_dir = {}
    /\ archive_processed_dir = {}
    /\ arch_calls = <<>>
    /\ store = {listing[k].key : k \in 1..Len(listing)}
    /\ NoExt

NextMain ==
    \/ FetchFile
    \/ FetchReturn
    \/ TransformOk
    \/ TransformFail
    \/ LoopExhausted
    \/ AttemptOk
    \/ AttemptFailRetry
    \/ AttemptFailFinal
    \/ ClassifyLoop
    \/ Drain
    \/ ClassifyDrain
    \/ ArchiveKey
    \/ ArchiveReturn
    \/ UploadGroup
    \/ ReportReturn

SpecMain == InitMain /\ [][NextMain]_vars

\* a run of main in which an exception may escape a stage
NextMainExc ==
    \/ NextMain
    \/ MainExcept

SpecMainExc == InitMain /\ [][NextMainExc]_vars

\* the files the Archiver is asked about: a raw input file and the
\* processed chunks made of it
RawFiles == {"mydata.xlsx"}
ProcessedFiles == {"processed_1.xlsx", "processed_2.xlsx"}

\* an Archiver after construction (lines 9-14), on directories that hold
\* any of the files, and calls of its two methods in any order
InitArchiver ==
    /\ rows = <<>>
    /\ i = 0
    /\ pc = "archiver"
    /\ batch_rows = <<>>
    /\ batch_payload = <<>>
    /\ failed_rows = <<>>
    /\ successful_rows = <<>>
    /\ failure_streak = 0
    /\ FailureReason = <<>>
    /\ caller = "direct"
    /\ batch = <<>>
    /\ max_retries = DefaultMaxRetries
    /\ attempt = 0
    /\ delay = InitialDelay
    /\ ret = [success |-> FALSE, reason |-> NoReason]
    /\ events = <<>>
    /\ submitted = <<>>
    /\ calls = <<>>
    /\ tripped = FALSE
    /\ NoJob
    /\ input_dir \in SUBSET RawFiles
    /\ processed_dir \in SUBSET ProcessedFiles
    /\ archive_input_dir = {}
    /\ archive_processed_dir = {}
    /\ arch_calls = <<>>
    /\ store = {}
    /\ NoExt

NextArchiver ==
    \/ \E f \in RawFiles : archive_raw(f)
    \/ \E f \in ProcessedFiles : archive_processed(f)

SpecArchiver == InitArchiver /\ [][NextArchiver]_vars

\* no post_batches_with_success_tracking and no main is running
NoDelivery ==
    /\ rows = <<>>
    /\ i = 0
    /\ batch_rows = <<>>
    /\ batch_payload = <<>>
    /\ failed_rows = <<>>
    /\ successful_rows = <<>>
    /\ failure_streak = 0
    /\ FailureReason = <<>>
    /\ caller = "direct"
    /\ batch = <<>>
    /\ max_retries = DefaultMaxRetries
    /\ attempt = 0
    /\ delay = InitialDelay
    /\ ret = [success |-> FALSE, reason |-> NoReason]
    /\ events = <<>>
    /\ submitted = <<>>
    /\ calls = <<>>
    /\ tripped = FALSE
    /\ NoJob

\* a run of deepparse_flow on an input directory that holds any of the raw
\* files, with the classes of the pipeline or with replaced components
InitFlow ==
    /\ NoDelivery
    /\ pc = "flow_start"
    /\ components \in {"repository", "replaced"}
    /\ files = <<>>
    /\ file_idx = 0
    /\ chunks = 0
    /\ chunk_idx = 0
    /\ flow_log = <<>>
    /\ input_dir \in SUBSET {RawName(k) : k \in 1..MaxFiles}
    /\ processed_dir = {}
    /\ archive_input_dir = {}
    /\ archive_processed_dir = {}
    /\ arch_calls = <<>>
    /\ store = {}
    /\ NoHandler
    /\ NoConverter

NextFlow ==
    \/ FlowStart
    \/ FlowExtract
    \/ FlowParse
    \/ FlowSave
    \/ FlowArchiveProcessed
    \/ FlowArchiveRaw

SpecFlow == InitFlow /\ [][NextFlow]_vars

\* one invocation of lambda_handler on an event of up to MaxRecords records
InitHandler ==
    /\ NoDelivery
    /\ NoPipeline
    /\ NoFlow
    /\ pc = "handler_start"
    /\ records \in UNION {[1..n -> RecordKinds] : n \in 0..MaxRecords}
    /\ rec_idx = 0
    /\ triggered_jobs = <<>>
    /\ seen_folders = {}
    /\ response = NoResponse
    /\ job_runs = <<>>
    /\ rec_log = <<>>
    /\ NoConverter

NextHandler ==
    \/ HandlerStart
    \/ HandleRecord
    \/ HandlerReturn

SpecHandler == InitHandler /\ [][NextHandler]_vars

\* one call of convert_csv_to_text on an input file of up to MaxChunkIds
\* chunks
InitConverter ==
    /\ NoDelivery
    /\ NoPipeline
    /\ NoFlow
    /\ NoHandler
    /\ pc = "conv_start"
    /\ num_chunks \in 0..MaxChunkIds
    /\ futures = <<>>
    /\ taken = {}
    /\ queue_items = <<>>
    /\ unfinished_tasks = 0
    /\ expected_chunk_id = 0
    /\ conversion_successful = TRUE
    /\ stop_writer_event = FALSE
    /\ writer_pc = "none"
    /\ written = <<>>
    /\ faults = {}

NextConverter ==
    \/ ConvStart
    \/ ConvSubmit
    \/ \E c \in 0..(MaxChunkIds - 1) : WorkerCompletes(c)
    \/ \E c \in 0..(MaxChunkIds - 1) : ConvCollect(c)
    \/ ConvCollectNone
    \/ ConvJoinQueue
    \/ ConvJoinWriter
    \/ WriterOpen
    \/ WriterGet
    \/ WriterStop
    \/ WriterFinally

SpecConverter == InitConverter /\ [][NextConverter]_vars

\* the main thread, the worker threads and the writer thread are threads of
\* one process, each of which the scheduler keeps running while it can take
\* a step
SpecConverterLive ==
    InitConverter /\ [][NextConverter]_vars /\ WF_vars(NextConverter)

\* the runs of main on the jobs in which at most one source file has rows
InitMainLive ==
    /\ InitMain
    /\ Cardinality({k \in 1..Len(listing) : listing[k].rows # <<>>}) <= 1

\* main is one sequential program that keeps running: every post returns
\* or times out (timeout=30, line 147), every sleep ends, every S3 call
\* returns or raises
SpecMainLive == InitMainLive /\ [][NextMain]_vars /\ WF_vars(NextMain)

\* ------------------------------------------------------------ properties
Count(list, r) == Cardinality({k \in 1..Len(list) : list[k] = r})

InSeq(list, r) == \E k \in 1..Len(list) : list[k] = r

\* the 2xx range, as the endpoint's contract states it
SuccessStatus(v) == v \in 200..299

Posts(ev) == SelectSeq(ev, LAMBDA e : e.kind = "post")

Sleeps(ev) == SelectSeq(ev, LAMBDA e : e.kind = "sleep")

RECURSIVE Pow2(_)
Pow2(n) == IF n = 0 THEN 1 ELSE 2 * Pow2(n - 1)

RECURSIVE TrailingFailures(_)
TrailingFailures(cs) ==
    IF cs = <<>> \/ cs[Len(cs)].success
    THEN 0
    ELSE 1 + TrailingFailures(SubSeq(cs, 1, Len(cs) - 1))

RECURSIVE RowsDispatched(_)
RowsDispatched(cs) ==
    IF cs = <<>> THEN 0
    ELSE Len(cs[Len(cs)].batch) + RowsDispatched(SubSeq(cs, 1, Len(cs) - 1))

LoopCalls == SelectSeq(calls, LAMBDA c : c.caller = "loop")

TransformFailed == {r \in 1..i : ~rows[r]}

Posted == {r \in 1..Len(rows) : \E k \in 1..Len(calls) : InSeq(calls[k].batch, r)}

\* C1: once the failure streak has reached max_failure_streak, no call of
\* send_batch_async is started for the rest of the run, neither in the row
\* loop nor in the drain step.
C1_NoSubmitAfterTrip ==
    \A k \in 1..Len(submitted) : ~submitted[k].afterTrip

\* C2: at the end of any run, every row that was posted in a batch or that
\* failed transformation is exactly once in successful_rows and failed_rows
\* taken together.
C2_ExactlyOnceAtEnd ==
    pc = "done" =>
        \A r \in Posted \cup TransformFailed :
            Count(successful_rows, r) + Count(failed_rows, r) = 1

\* C3: at the end of a run in which the circuit breaker did not trip, every
\* transformed row is exactly once in successful_rows and failed_rows taken
\* together, and every row whose transformation failed is exactly once in
\* failed_rows and not in successful_rows.
C3_PartitionWhenNotTripped ==
    (pc = "done" /\ ~tripped) =>
        \A r \in 1..Len(rows) :
            /\ Count(successful_rows, r) + Count(failed_rows, r) = 1
            /\ ~rows[r] => Count(failed_rows, r) = 1

C3_Witness ==
    /\ pc = "done"
    /\ ~tripped
    /\ Len(calls) = 3
    /\ \E k \in 1..Len(calls) : calls[k].success
    /\ \E k \in 1..Len(calls) : ~calls[k].success
    /\ TransformFailed # {}

\* C4: a call of send_batch_async with max_retries = M >= 0 makes min(k, M+1)
\* post attempts, k being the first attempt answered by a 2xx status, and
\* returns success iff k <= M + 1.
C4_AttemptCount ==
    (pc = "ret" /\ max_retries >= 0) =>
        LET p == Posts(events)
            oks == {k \in 1..Len(p) : SuccessStatus(p[k].v)}
        IN  IF oks # {}
            THEN /\ \A k \in oks : k = Len(p)
                 /\ Len(p) <= max_retries + 1
                 /\ ret.success
            ELSE /\ Len(p) = max_retries + 1
                 /\ ~ret.success

C4_Witness ==
    /\ pc = "ret"
    /\ max_retries = 2
    /\ ~ret.success
    /\ Len(Posts(events)) = 3

\* C5: after an attempt of send_batch_async that received a 2xx status there
\* is no further post attempt and no backoff sleep: the call has returned
\* success.
C5_SuccessEndsCall ==
    \A k \in 1..Len(events) :
        (events[k].kind = "post" /\ SuccessStatus(events[k].v)) =>
            /\ k = Len(events)
            /\ pc = "ret"
            /\ ret.success

C5_Witness ==
    /\ pc = "ret"
    /\ ret.success
    /\ Len(events) = 3
    /\ events[3].v = 204

\* C6: the sleep after the j-th failed attempt of a call is 2^j, every sleep
\* stands between a failed attempt and the next attempt, and the call returns
\* without a sleep after its last attempt.
C6_BackoffSequence ==
    /\ \A k \in 1..Len(events) :
           IF k % 2 = 1
           THEN events[k].kind = "post"
           ELSE /\ events[k].kind = "sleep"
                /\ events[k].v = Pow2(k \div 2)
                /\ ~SuccessStatus(events[k - 1].v)
    /\ pc = "send" => Len(events) % 2 = 0
    /\ (pc = "ret" /\ events # <<>>) => events[Len(events)].kind = "post"
    /\ (pc = "ret" /\ ~ret.success /\ max_retries >= 0) =>
           /\ Len(Sleeps(events)) = max_retries
           /\ Len(Posts(events)) = max_retries + 1

C6_Witness ==
    /\ pc = "ret"
    /\ ~ret.success
    /\ Len(Sleeps(events)) = 3
    /\ events[6].v = 8

C8_RowsFollowOutcome ==
    /\ \A k \in 1..Len(calls) :
        LET c == calls[k]
            list == IF c.success THEN successful_rows ELSE failed_rows
        IN  /\ c.rows = c.batch
            /\ c.batch # <<>>
            /\ Len(list) >= c.at + Len(c.batch)
            /\ SubSeq(list, c.at + 1, c.at + Len(c.batch)) = c.batch
    /\ (calls # <<>> /\ ~calls[Len(calls)].success) =>
        LET c == calls[Len(calls)]
        IN  /\ c.reason # NoReason
            /\ \A r \in 1..Len(rows) :
                   InSeq(c.batch, r) => FailureReason[r] = c.reason

C8_Witness ==
    /\ Len(calls) >= 2
    /\ calls[1].success
    /\ ~calls[2].success
    /\ Len(calls[2].batch) = 2
    /\ calls[2].at = 1

\* C9 as stated: between batch posts, while the breaker has not tripped,
\* len(successful_rows) + len(failed_rows) is the number of rows posted in a
\* batch so far.
C9_CountIsDispatched ==
    (pc \in {"loop", "drain", "done"} /\ ~tripped) =>
        Len(successful_rows) + Len(failed_rows) = RowsDispatched(calls)

\* C9 amended: between batch posts, while the breaker has not tripped,
\* len(successful_rows) + len(failed_rows) is the number of rows posted in a
\* batch so far plus the number of rows whose transformation failed so far.
C9_CountIsDispatchedPlusTransformFailed ==
    (pc \in {"loop", "drain", "done"} /\ ~tripped) =>
        Len(successful_rows) + Len(failed_rows)
            = RowsDispatched(calls) + Cardinality(TransformFailed)

C9_Witness ==
    /\ pc = "loop"
    /\ ~tripped
    /\ Len(calls) = 2
    /\ Cardinality(TransformFailed) = 1
    /\ Len(successful_rows) + Len(failed_rows) = 5

\* C10: a row whose transformation failed is in failed_rows as soon as the
\* loop has taken it, is in no batch payload, pending or submitted, and the
\* loop goes on to the next row.
C10_TransformFailedNeverPosted ==
    /\ \A r \in TransformFailed :
        /\ Count(failed_rows, r) = 1
        /\ FailureReason[r] # NoReason
        /\ ~InSeq(batch_payload, r)
        /\ \A k \in 1..Len(submitted) : ~InSeq(submitted[k].batch, r)
    /\ (i >= 1 /\ i < Len(rows) /\ i \in TransformFailed) => pc = "loop"

C10_Witness ==
    /\ TransformFailed # {}
    /\ i < Len(rows)
    /\ ~rows[i]
    /\ Len(submitted) >= 1
    /\ Len(batch_payload) = 1

HasPrefix(str, pre) ==
    Len(str) >= Len(pre) /\ SubSeq(str, 1, Len(pre)) = pre

Transformed == {r \in 1..Len(rows) : rows[r]}

\* the batches handed to send_batch_async so far, with their call site:
\* the returned calls and the call in flight
InFlight == pc \in {"send", "ret"}

Handed ==
    [k \in 1..Len(submitted) |->
        IF k <= Len(calls)
        THEN [batch |-> calls[k].batch, caller |-> calls[k].caller]
        ELSE [batch |-> batch, caller |-> caller]]

\* b is a run of consecutive transformed rows, in arrival order
ContiguousRun(b) ==
    /\ \A k \in 1..Len(b) : b[k] \in Transformed
    /\ \A k \in 1..(Len(b) - 1) :
        /\ b[k] < b[k + 1]
        /\ \A r \in Transformed : ~(b[k] < r /\ r < b[k + 1])

\* C11: a row whose transformation failed carries a reason of the form
\* "transform error: <detail>", which differs from the reason of every batch
\* whose delivery failed.
C11_TransformReasonDistinct ==
    \A r \in TransformFailed :
        /\ HasPrefix(FailureReason[r], "transform error: ")
        /\ \A k \in 1..Len(calls) :
               ~calls[k].success => FailureReason[r] # calls[k].reason

\* C12: when send_batch_async returns failure and its last attempt received
\* the non-2xx status S, the returned reason starts with "HTTP S - ".
C12_ReasonCarriesStatus ==
    (pc = "ret" /\ ~ret.success /\ events # <<>>) =>
        LET last == events[Len(events)].v
        IN  last # TransportError =>
                HasPrefix(ret.reason, "HTTP " \o ToString(last) \o " - ")

\* C13: every batch handed to send_batch_async is a non-empty run of
\* consecutive transformed rows in arrival order of at most batch_size rows;
\* a batch posted from the row loop has exactly batch_size rows.
C13_BatchShape ==
    /\ Len(submitted) = Len(calls) + (IF InFlight THEN 1 ELSE 0)
    /\ \A k \in 1..Len(submitted) :
        /\ submitted[k].batch = Handed[k].batch
        /\ Handed[k].batch # <<>>
        /\ Len(Handed[k].batch) <= BATCH_SIZE
        /\ ContiguousRun(Handed[k].batch)
        /\ Handed[k].caller = "loop" => Len(Handed[k].batch) = BATCH_SIZE

C13_Witness ==
    /\ pc = "done"
    /\ Len(calls) = 3
    /\ calls[3].caller = "drain"
    /\ Len(calls[3].batch) = 1
    /\ TransformFailed # {}
    /\ \E k \in 1..2 : calls[k].batch[2] - calls[k].batch[1] > 1

\* C14: no row is in the payload of two different calls of send_batch_async.
C14_OneBatchPerRow ==
    \A k, l \in 1..Len(submitted) :
        k < l => \A r \in 1..Len(rows) :
            ~(InSeq(submitted[k].batch, r) /\ InSeq(submitted[l].batch, r))

\* C15: when the rows are exhausted without a trip, a batch of fewer than
\* batch_size rows that is left is posted exactly once, by the drain step,
\* and its rows are classified by the outcome; when no row is left there is
\* no drain post.
LeftOver == Cardinality(Transformed) % BATCH_SIZE

DrainCalls == SelectSeq(calls, LAMBDA c : c.caller = "drain")

C15_PartialBatchDrainedOnce ==
    (pc = "done" /\ ~tripped) =>
        IF LeftOver = 0
        THEN DrainCalls = <<>>
        ELSE /\ Len(DrainCalls) = 1
             /\ Len(DrainCalls[1].batch) = LeftOver
             /\ calls[Len(calls)] = DrainCalls[1]
             /\ \A r \in Transformed :
                    InSeq(DrainCalls[1].batch, r)
                        <=> Cardinality({q \in Transformed : q > r}) < LeftOver
             /\ \A r \in 1..Len(rows) : InSeq(DrainCalls[1].batch, r) =>
                    /\ Count(successful_rows, r)
                           = (IF DrainCalls[1].success THEN 1 ELSE 0)
                    /\ Count(failed_rows, r)
                           = (IF DrainCalls[1].success THEN 0 ELSE 1)
                    /\ Cardinality({k \in 1..Len(submitted) :
                                       InSeq(submitted[k].batch, r)}) = 1

C15_Witness ==
    /\ pc = "done"
    /\ ~tripped
    /\ LeftOver = 1
    /\ Len(calls) = 3
    /\ ~calls[3].success
    /\ calls[2].success

\* C16: at most one call of send_batch_async is in flight: a batch is handed
\* over only when every earlier call has returned, and no batch is handed
\* over after a batch of later rows.
C16_OneBatchInFlight ==
    /\ Len(submitted) - Len(calls) \in {0, 1}
    /\ Len(submitted) - Len(calls) = 1 <=> InFlight
    /\ ~InFlight => events = <<>>
    /\ \A k, l \in 1..Len(submitted) :
        k < l => submitted[k].batch[1] <= submitted[l].batch[1]

C16_Witness ==
    /\ pc = "send"
    /\ Len(submitted) = 3
    /\ Len(calls) = 2
    /\ Len(events) = 4

SeqSet(list) == {list[k] : k \in 1..Len(list)}

ArchiveFinished == pc \in {"report", "completed"}

\* the source keys of the rows in failed_rows
FailedSources == {source_file_key[failed_rows[k]] : k \in 1..Len(failed_rows)}

\* C17: main has archive_files attempt every key fetch_all_csvs returned,
\* whether or not rows of the file are in failed_rows and whether or not the
\* circuit breaker tripped.
C17_ArchiveIgnoresDelivery ==
    ArchiveFinished =>
        \A key \in SeqSet(csv_keys) :
            \E k \in 1..Len(archive_log) : archive_log[k].key = key

C17_Witness ==
    /\ pc = "completed"
    /\ tripped
    /\ Len(csv_keys) = 2
    /\ FailedSources = SeqSet(csv_keys)
    /\ Len(archived) = 2

\* C18: every archived file was enumerated and read successfully: a file
\* whose read raised, or whose columns were rejected, is never archived.
C18_ArchivedWereRead ==
    \A k \in 1..Len(archive_log) :
        archive_log[k].outcome = "ok" => \E j \in 1..Len(listing) :
            /\ listing[j].key = archive_log[k].key
            /\ Selected(listing[j].key, FOLDER_PREFIX)
            /\ listing[j].outcome = "ok"

\* C19: a failed copy or delete does not end the loop of archive_files:
\* every key is attempted once, in order, whatever became of the keys before
\* it, and archive_files returns to main with the failed keys in its list.
C19_ArchiveFailureIsolated ==
    /\ Len(archive_log) = ai
    /\ ai <= Len(csv_keys)
    /\ \A k \in 1..Len(archive_log) : archive_log[k].key = csv_keys[k]
    /\ archive_failed =
           SelectSeq([k \in 1..Len(archive_log) |->
                         IF archive_log[k].outcome = "ok"
                         THEN "" ELSE archive_log[k].key],
                     LAMBDA key : key # "")
    /\ ArchiveFinished => ai = Len(csv_keys)

C19_Witness ==
    /\ pc = "report"
    /\ Len(archive_log) = 2
    /\ archive_log[1].outcome = "copy_failed"
    /\ archive_log[2].outcome = "ok"
    /\ Len(archived) = 1

\* C20: when every write succeeds, upload_failed_rows_to_s3 writes one
\* artifact for each source key that has rows in failed_rows and none for
\* any other key; with no failed row it writes nothing.
C20_OneArtifactPerFailedSource ==
    (pc = "completed" /\ \A k \in 1..Len(upload_log) : upload_log[k].ok) =>
        /\ Len(puts) = Cardinality(FailedSources)
        /\ \A key \in FailedSources :
               Cardinality({k \in 1..Len(puts) : puts[k].source = key}) = 1
        /\ \A k \in 1..Len(puts) : puts[k].source \in FailedSources
        /\ failed_rows = <<>> => puts = <<>>

C20_Witness ==
    /\ pc = "completed"
    /\ Len(csv_keys) = 2
    /\ successful_rows # <<>>
    /\ Len(upload_log) = 1
    /\ Len(puts) = 1
    /\ Len(puts[1].rows) = 2

\* C21: every artifact upload_failed_rows_to_s3 has written holds the failed
\* rows of its source file and no other row, each of them once and with a
\* failure reason.
C21_ArtifactHoldsItsFailedRows ==
    pc = "completed" =>
        \A k \in 1..Len(puts) :
            /\ \A r \in 1..Len(rows) :
                   Count(puts[k].rows, r) =
                       IF InSeq(failed_rows, r)
                          /\ source_file_key[r] = puts[k].source
                       THEN 1 ELSE 0
            /\ \A j \in 1..Len(puts[k].rows) :
                   FailureReason[puts[k].rows[j]] # NoReason

\* C22: a put_object that fails in upload_failed_rows_to_s3 ends its own
\* group only: every group is attempted once, in order, the groups whose
\* write succeeded have one artifact each and it stays written, and the
\* groups whose write failed have none.
C22_WriteFailureIsolated ==
    LET groups == FailedGroups(failed_rows, source_file_key, listing)
    IN  pc \in {"report", "completed"} =>
            /\ Len(upload_log) <= Len(groups)
            /\ \A k \in 1..Len(upload_log) :
                   /\ upload_log[k].source = groups[k]
                   /\ Cardinality({j \in 1..Len(puts) :
                                      puts[j].source = groups[k]})
                          = IF upload_log[k].ok THEN 1 ELSE 0
            /\ pc = "completed" => Len(upload_log) = Len(groups)

C22_Witness ==
    /\ pc = "completed"
    /\ Len(upload_log) = 2
    /\ ~upload_log[1].ok
    /\ upload_log[2].ok
    /\ Len(puts) = 1
    /\ puts[1].source = upload_log[2].source

\* the summary of lines 332-343 has been logged with the counts of the run
SummaryEmitted ==
    \E k \in 1..Len(job_log) :
        /\ job_log[k].status = "Job Completed"
        /\ job_log[k].jobId = job_id
        /\ job_log[k].rowCount = Len(rows)
        /\ job_log[k].successfulRows = Len(successful_rows)
        /\ job_log[k].failedRows = Len(failed_rows)
        /\ job_log[k].processedFiles = csv_keys

\* C23: every run of main in which fetch, dispatch, archive and report
\* return reaches the 'Job Completed' summary, whatever batches failed,
\* whether or not the circuit breaker tripped, and whatever archive copies
\* and failed-row writes failed.
C23_SummaryAlwaysEmitted == <>(pc = "completed" /\ SummaryEmitted)

C23_Witness ==
    /\ pc = "completed"
    /\ SummaryEmitted
    /\ tripped
    /\ archive_failed # <<>>
    /\ \E k \in 1..Len(upload_log) : ~upload_log[k].ok

\* C24: once the circuit breaker has tripped the for loop has taken its last
\* row, and main still goes on: archive_files attempts every key that
\* fetch_all_csvs returned, then upload_failed_rows_to_s3 attempts a write
\* for every source key of failed_rows, and the job completes.
C24_TripLeadsToArchiveAndReport ==
    tripped ~>
        (/\ pc = "completed"
         /\ SummaryEmitted
         /\ i = Len(LoopCalls) * BATCH_SIZE + Cardinality(TransformFailed)
         /\ \A key \in SeqSet(csv_keys) :
                \E k \in 1..Len(archive_log) : archive_log[k].key = key
         /\ \A key \in FailedSources :
                \E k \in 1..Len(upload_log) : upload_log[k].source = key)

C24_Witness ==
    /\ pc = "completed"
    /\ tripped
    /\ Len(csv_keys) = 2
    /\ Len(archive_log) = 2
    /\ Len(upload_log) = 1
    /\ Len(puts) = 1

\* C25: the stages of a run of main follow one another: no batch is handed
\* to send_batch_async before fetch_all_csvs has handled every listed object,
\* no key is archived before the last call of send_batch_async has returned
\* and dispatch has ended, and no failed-row artifact is written before
\* archive_files has attempted every key.
C25_StagesInOrder ==
    /\ pc = "fetch" =>
           (submitted = <<>> /\ archive_log = <<>> /\ upload_log = <<>>)
    /\ submitted # <<>> => fi = Len(listing)
    /\ pc \in {"loop", "send", "ret", "drain"} =>
           (archive_log = <<>> /\ upload_log = <<>>)
    /\ archive_log # <<>> =>
           (Len(calls) = Len(submitted) /\ pc \in {"done", "report", "completed"})
    /\ pc = "done" => upload_log = <<>>
    /\ upload_log # <<>> =>
           (/\ pc \in {"report", "completed"}
            /\ Len(archive_log) = Len(csv_keys))

C25_Witness ==
    /\ pc = "report"
    /\ fi = Len(listing)
    /\ Len(submitted) = 2
    /\ Len(archive_log) = 2
    /\ Len(upload_log) = 1
    /\ gi < Len(FailedGroups(failed_rows, source_file_key, listing))

\* Scenario A: five transformable rows, the call for [r1,r2] fails after
\* three attempts, the calls for [r3,r4] and [r5] succeed, [r3,r4] on its
\* first attempt
ScenarioA ==
    /\ pc = "done"
    /\ rows = <<TRUE, TRUE, TRUE, TRUE, TRUE>>
    /\ Len(calls) = 3
    /\ calls[1].batch = <<1, 2>> /\ ~calls[1].success /\ calls[1].attempts = 3
    /\ calls[2].batch = <<3, 4>> /\ calls[2].success /\ calls[2].attempts = 1
    /\ calls[3].batch = <<5>> /\ calls[3].success

\* a reason of the form "HTTP <code> - <text>"
HttpForm(reason) ==
    /\ HasPrefix(reason, "HTTP ")
    /\ \E k \in 6..(Len(reason) - 3) : SubSeq(reason, k, k + 2) = " - "

ScenarioB ==
    /\ pc = "done"
    /\ rows = <<TRUE, TRUE, TRUE, TRUE, TRUE>>
    /\ \A k \in 1..Len(calls) : ~calls[k].success

\* C27: Scenario B ends after the failure of the second batch: the endpoint
\* has received three attempts for [r1,r2], three attempts for [r3,r4] and
\* nothing else, failed_rows = [r1,r2,r3,r4], successful_rows is empty and
\* r5 is in neither list.
C27_ScenarioB ==
    ScenarioB =>
        /\ Len(calls) = 2
        /\ calls[1].batch = <<1, 2>> /\ calls[1].attempts = 3
        /\ calls[2].batch = <<3, 4>> /\ calls[2].attempts = 3
        /\ failed_rows = <<1, 2, 3, 4>>
        /\ successful_rows = <<>>
        /\ ~InSeq(failed_rows, 5) /\ ~InSeq(successful_rows, 5)

\* the key names a .csv object that is an immediate child of the prefix
ImmediateCsvChild(key, prefix) ==
    /\ HasPrefix(key, prefix \o "/")
    /\ EndsWith(key, ".csv")
    /\ \A k \in (Len(prefix) + 2)..Len(key) : SubSeq(key, k, k) # "/"

\* the keys under which this run has written an archive copy or an artifact
WrittenKeys ==
    {archive_log[k].archive_key : k \in 1..Len(archive_log)}
        \cup {puts[k].key : k \in 1..Len(puts)}

\* C28: fetch_all_csvs reads only the .csv objects that are immediate
\* children of the prefix: the archive copies and the failed-row artifacts
\* of an earlier run, which are listed under the prefix, are not read, and
\* no key this run writes under archive/ or failed/ is one that a later
\* run would select.
C28_OnlyImmediateChildrenRead ==
    /\ \A k \in 1..Len(processed_keys) :
           ImmediateCsvChild(processed_keys[k], FOLDER_PREFIX)
    /\ \A r \in 1..Len(source_file_key) :
           ImmediateCsvChild(source_file_key[r], FOLDER_PREFIX)
    /\ \A k \in 1..Len(csv_keys) :
           ImmediateCsvChild(csv_keys[k], FOLDER_PREFIX)
    /\ \A key \in WrittenKeys :
           /\ ~ImmediateCsvChild(key, FOLDER_PREFIX)
           /\ ~Selected(key, FOLDER_PREFIX)

C28_Witness ==
    /\ pc = "completed"
    /\ \E k \in 1..Len(listing) :
           listing[k].key = ArchiveKeyOf(SourceKeys[1], FOLDER_PREFIX)
    /\ \E k \in 1..Len(listing) :
           listing[k].key = FailedKeyOf(SourceKeys[1], FOLDER_PREFIX, 0)
    /\ csv_keys = SourceKeys
    /\ Len(archived) = 2
    /\ Len(puts) = 2
    /\ \E k \in 1..Len(puts) : \E j \in 1..Len(listing) :
           puts[k].key = listing[j].key

\* C29: when an exception escapes a stage of main, main logs one 'Job
\* Failed' record with the job id, logs no 'Job Completed' record, and
\* leaves by raising the exception again; a run in which none escapes logs
\* no 'Job Failed' record.
C29_JobFailedOnceAndReraised ==
    LET failed == {k \in 1..Len(job_log) : job_log[k].status = "Job Failed"}
        completed ==
            {k \in 1..Len(job_log) : job_log[k].status = "Job Completed"}
    IN  /\ failed # {} <=> pc = "raised"
        /\ Cardinality(failed) <= 1
        /\ \A k \in failed : job_log[k].jobId = job_id
        /\ failed # {} => completed = {}
        /\ completed # {} <=> pc = "completed"

C29_Witness ==
    /\ pc = "raised"
    /\ job_log[Len(job_log)] = JobFailed(job_id, "error in report")
    /\ Len(archive_log) = 2
    /\ Len(upload_log) = 1

\* C30: a call of the Archiver for a file that is missing raises
\* FileNotFoundError instead of returning: archive_raw for a missing raw
\* input file, and archive_processed for a missing processed file.
C30_MissingFileRaises ==
    \A k \in 1..Len(arch_calls) :
        ~arch_calls[k].present =>
            arch_calls[k].result =
                [outcome |-> "raised", error |-> "FileNotFoundError"]

\* the source files of the job that were listed
ListedSources ==
    {key \in SeqSet(SourceKeys) :
        \E k \in 1..Len(listing) : listing[k].key = key}

\* C31: archive_files deletes a source object only after its copy under
\* <prefix>/archive/ has been made: a source file that is gone from the
\* source location was copied and is in the archive location, a file whose
\* copy failed is still in the source location and is not in the list
\* archived, and the list archived holds the keys copied and deleted.
C31_DeleteOnlyAfterCopy ==
    /\ \A key \in ListedSources :
           key \notin store =>
               /\ ArchiveKeyOf(key, FOLDER_PREFIX) \in store
               /\ \E k \in 1..Len(archive_log) :
                      archive_log[k].key = key /\ archive_log[k].outcome = "ok"
    /\ \A k \in 1..Len(archive_log) :
           archive_log[k].outcome = "copy_failed" =>
               /\ archive_log[k].key \in store
               /\ ~InSeq(archived, archive_log[k].archive_key)
               /\ InSeq(archive_failed, archive_log[k].key)
    /\ \A k \in 1..Len(archived) :
           /\ archived[k] \in store
           /\ \E j \in 1..Len(archive_log) :
                  /\ archive_log[j].archive_key = archived[k]
                  /\ archive_log[j].outcome = "ok"
                  /\ archive_log[j].key \notin store

C31_Witness ==
    /\ pc = "report"
    /\ Len(archive_log) = 2
    /\ archive_log[1].outcome = "ok"
    /\ archive_log[1].key \notin store
    /\ archive_log[2].outcome = "copy_failed"
    /\ archive_log[2].key \in store
    /\ archive_log[2].archive_key \notin store

\* C32: the counts of the batch summary (lines 275-282) satisfy
\* successfulRows + failedRows <= totalRows in every run, also when the
\* circuit breaker has tripped.
C32_CountsWithinTotal ==
    pc = "done" => Len(successful_rows) + Len(failed_rows) <= Len(rows)

\* C33: every attempt of one call of send_batch_async posts the same
\* payload: the records of the batch the caller handed over, in its order,
\* each with the RequestId it had on the first attempt.
C33_SamePayloadEveryAttempt ==
    LET p == Posts(events)
    IN  \A k \in 1..Len(p) :
            /\ p[k].payload = p[1].payload
            /\ Len(p[k].payload) = Len(batch)
            /\ \A j \in 1..Len(batch) : p[k].payload[j].row = batch[j]
            /\ batch = submitted[Len(submitted)].batch

C33_Witness ==
    /\ pc = "ret"
    /\ Len(Posts(events)) = 3
    /\ Len(batch) = 2
    /\ Len(calls) = 1
    /\ ret.success

\* lines 77-121 as a function of the listing: the frame fetch_all_csvs
\* builds and the keys it returns
RECURSIVE FetchedRows(_)
FetchedRows(l) ==
    IF l = <<>> THEN <<>>
    ELSE (IF Selected(l[1].key, FOLDER_PREFIX) THEN l[1].rows ELSE <<>>)
         \o FetchedRows(Tail(l))

RECURSIVE FetchedProcessed(_)
FetchedProcessed(l) ==
    IF l = <<>> THEN <<>>
    ELSE LET obj == l[Len(l)]
             before == FetchedProcessed(SubSeq(l, 1, Len(l) - 1))
         IN  IF Selected(obj.key, FOLDER_PREFIX)
             THEN ProcessedAfter(before, obj.key, obj.outcome)
             ELSE before

FetchedKeys(l) == ReturnedKeys(FetchedRows(l), FetchedProcessed(l))

\* the objects of listing l under key f: what the run finds for f
EntryOf(l, f) == {l[k] : k \in {j \in 1..Len(l) : l[j].key = f}}

\* C34: whether a source file is handed to archive_files depends on the
\* file's own listing entry and read outcome only: a run on any other
\* listing that holds the same entry for f makes the same decision for f.
C34_ArchiveDecisionOwnFileOnly ==
    (pc = "loop" /\ i = 0 /\ calls = <<>> /\ batch_rows = <<>>) =>
        \A f \in SeqSet(SourceKeys) : \A l2 \in JobListings :
            EntryOf(l2, f) = EntryOf(listing, f) =>
                (InSeq(csv_keys, f) <=> InSeq(FetchedKeys(l2), f))

RECURSIVE TotalAttempts(_)
TotalAttempts(cs) ==
    IF cs = <<>> THEN 0 ELSE cs[1].attempts + TotalAttempts(Tail(cs))

CeilDiv(n, d) == (n + d - 1) \div d

\* C35: at the end of post_batches_with_success_tracking the post attempts
\* of the run number at most (max_retries + 1) * ceil(n / batch_size), n
\* being the number of rows that were transformed.
C35_AttemptsBounded ==
    pc = "done" =>
        TotalAttempts(calls) <=
            (DefaultMaxRetries + 1)
                * CeilDiv(Cardinality(Transformed), BATCH_SIZE)

\* position of raw file f in the list of files
FilePos(f) == CHOOSE k \in 1..Len(files) : files[k] = f

\* the chunks of the file of entry p were parsed, saved and had their
\* processed file handed to archive_processed, in this order, before p
ChunksDoneBefore(p) ==
    LET f == flow_log[p].file
    IN  \E e \in 1..(p - 1) :
            /\ flow_log[e].step = "extract"
            /\ flow_log[e].file = f
            /\ \A c \in 1..flow_log[e].chunk :
                   \E a, b, d \in (e + 1)..(p - 1) :
                       /\ a < b
                       /\ b < d
                       /\ flow_log[a] = FlowEntry("parse_file", f, c)
                       /\ flow_log[b] = FlowEntry("save", f, c)
                       /\ flow_log[d] = FlowEntry("archive_processed", f, c)

FlowCallOrder ==
    /\ \A p \in 1..Len(flow_log) :
           flow_log[p].step = "archive_raw" => ChunksDoneBefore(p)
    /\ \A p \in 1..Len(flow_log) :
           flow_log[p].step \in {"extract", "extract raised"} =>
               \A j \in 1..(FilePos(flow_log[p].file) - 1) :
                   \E q \in 1..(p - 1) :
                       flow_log[q] = FlowEntry("archive_raw", files[j], 0)

\* C37: lambda_handler starts at most one Glue job for each pair of bucket
\* and folder of an event, a failed start of a job does not keep the
\* handler from taking the records after it, and the status of the response
\* is 200 iff at least one job was started.
C37_OneJobPerFolderAndStatus ==
    /\ \A b \in Buckets : \A f \in Folders :
           Cardinality({k \in 1..Len(job_runs) :
               job_runs[k].bucket = b /\ job_runs[k].folder = f}) <= 1
    /\ pc = "handler_returned" =>
           /\ \A k \in 1..Len(rec_log) :
                  (rec_log[k] = "start_failed" /\ k < Len(records)) =>
                      Len(rec_log) > k
           /\ response.statusCode = 200 <=> job_runs # <<>>

\* the same for the invocations that reach the return of line 202
HandlerStatusOnReturn ==
    (pc = "handler_returned" /\ response.statusCode # 500) =>
        /\ Len(rec_log) = Len(records)
        /\ response.statusCode = 200 <=> job_runs # <<>>

\* C38: whatever the order in which the chunks complete, the writer thread
\* writes the chunks in the order of their ids 0, 1, 2, ..., each once, and
\* the call returns True only if every chunk was written.
C38_ChunksWrittenInOrder ==
    /\ \A k \in 1..Len(written) : written[k] = k - 1
    /\ (pc = "conv_returned" /\ faults = {}) =>
           written = [k \in 1..num_chunks |-> k - 1]
    /\ (pc = "conv_returned" /\ conversion_successful) =>
           written = [k \in 1..num_chunks |-> k - 1]

\* C39: convert_csv_to_text returns in every interleaving of the threads.
C39_AlwaysReturns == <>(pc = "conv_returned")

====
